---- MODULE Spec2Model ----
(***************************************************************************)
(* Model of the parking simulator: the kinematic vehicle model             *)
(* (src/src/car.ts), the input controls (src/src/controls.ts), the map     *)
(* storage and the application's game loop.                                *)
(*                                                                         *)
(* Numbers are fixed-point integers:                                       *)
(*   angles      1 unit = 1/AngleScale rad   (heading, steeringAngle)      *)
(*   lengths     1 unit = 1/LenScale  pixel  (positions, geometry)         *)
(*   velocities  1 unit = 1/LenScale  pixel per second                     *)
(*   time        1 unit = 1/TimeScale second (dt)                          *)
(*   steeringPosition is counted in halves: -2, -1, 0, 1, 2 stand for      *)
(*   -1, -0.5, 0, 0.5, 1.                                                  *)
(***************************************************************************)
EXTENDS Integers, Sequences, FiniteSets, TLC

AngleScale == 10000
LenScale == 100
TimeScale == 1000

\* ---------------------------------------------------------------- bounds
\* number of operations on the car explored in one behaviour
MaxOps == 2
\* number of ticks for which one steering position is held
MaxSteerTicks == 18
\* iterations of the game loop
MaxFrames == 2
\* events of the application other than animation frames
MaxSteps == 3
\* events handed to the editor
MaxEdits == 5
\* successive calls of rotateSelected
MaxRotations == 24

\* ------------------------------------------------------------ arithmetic
Abs(a) == IF a < 0 THEN -a ELSE a
Min(a, b) == IF a < b THEN a ELSE b
Max(a, b) == IF a > b THEN a ELSE b

\* a / b rounded to the nearest unit (b # 0)
RDiv(a, b) == (2 * a + b) \div (2 * b)

\* product of a quantity and a factor scaled by AngleScale
FMul(a, b) == RDiv(a * b, AngleScale)

\* JavaScript's % : the remainder takes the sign of the dividend
JsMod(a, b) == IF a >= 0 THEN a % b ELSE -((-a) % b)

Pi == 31416
HalfPi == Pi \div 2
TwoPi == 2 * Pi

\* sine of an angle in [0, pi/2], by its Taylor series in Horner form
SinQ(x) ==
  LET x2 == FMul(x, x)
      t4 == AngleScale - RDiv(x2, 72)
      t3 == AngleScale - RDiv(FMul(x2, t4), 42)
      t2 == AngleScale - RDiv(FMul(x2, t3), 20)
      t1 == AngleScale - RDiv(FMul(x2, t2), 6)
  IN  FMul(x, t1)

\* Math.sin, Math.cos, Math.tan: results scaled by AngleScale
Sin(a) ==
  LET r == a % TwoPi
  IN  IF r <= HalfPi THEN SinQ(r)
      ELSE IF r <= Pi THEN SinQ(Pi - r)
      ELSE IF r <= Pi + HalfPi THEN -SinQ(r - Pi)
      ELSE -SinQ(TwoPi - r)

Cos(a) == Sin(a + HalfPi)

Tan(a) == RDiv(Sin(a) * AngleScale, Cos(a))

\* ---------------------------------------------------------------- configs
PICANTO_CONFIG ==
  [name |-> "Kia Picanto", length |-> 120 * LenScale, width |-> 53 * LenScale,
   wheelbase |-> 80 * LenScale, maxSteeringAngle |-> Pi \div 4,
   speed |-> 60 * LenScale, rearOverhang |-> 20 * LenScale]

SUV_CONFIG ==
  [name |-> "SUV", length |-> 150 * LenScale, width |-> 62 * LenScale,
   wheelbase |-> 89 * LenScale, maxSteeringAngle |-> (2 * Pi) \div 9,
   speed |-> 60 * LenScale, rearOverhang |-> 30 * LenScale]

STARIA_CONFIG ==
  [name |-> "Hyundai Staria", length |-> 175 * LenScale, width |-> 67 * LenScale,
   wheelbase |-> 109 * LenScale, maxSteeringAngle |-> Pi \div 5,
   speed |-> 60 * LenScale, rearOverhang |-> 33 * LenScale]

CAR_CONFIGS == <<PICANTO_CONFIG, SUV_CONFIG, STARIA_CONFIG>>

ConfigSet == {CAR_CONFIGS[i] : i \in 1..Len(CAR_CONFIGS)}

\* ----------------------------------------------------------------- inputs
\* SteeringPosition, in halves
SteeringPosition == {-2, -1, 0, 1, 2}
Movement == {-1, 0, 1}
\* times handed to update, in 1/TimeScale s: a short frame and a long one
DtSet == {20, 200}

\* carStart poses of the scenarios: visual centre and heading
Poses ==
  { [x |-> 400 * LenScale, y |-> 300 * LenScale, heading |-> 0],
    [x |-> 700 * LenScale, y |-> 200 * LenScale, heading |-> Pi],
    [x |-> 400 * LenScale, y |-> 450 * LenScale, heading |-> -HalfPi] }

\* ------------------------------------------------------------------ state
\* the car: Car.state, Car.config, Car.wheelTrails; the last operation on it
\* with its arguments, the car as it was before that operation, and the number
\* of operations so far
VARIABLES state, config, wheelTrails, last, prev, ops, movingTicks
\* the collaborators: the Controls object and the input it returned last, the
\* browser's localStorage and the outcome of the last map-storage call, the
\* fields of ParkingSimulator, and the Editor
VARIABLES controls, inputState, storage, result, sim, editor

others == <<controls, inputState, storage, result, sim, editor>>

vars == <<state, config, wheelTrails, last, prev, ops, movingTicks, controls, inputState, storage, result, sim, editor>>

EmptyTrails ==
  [frontLeft |-> <<>>, frontRight |-> <<>>, rearLeft |-> <<>>, rearRight |-> <<>>]

\* (length / 2) - rearOverhang
CenterOffset(cfg) == RDiv(cfg.length, 2) - cfg.rearOverhang

\* the state built by the constructor and by reset
PoseState(x, y, heading, cfg) ==
  LET centerOffset == CenterOffset(cfg)
  IN  [rearAxleX |-> x - FMul(Cos(heading), centerOffset),
       rearAxleY |-> y - FMul(Sin(heading), centerOffset),
       heading |-> heading,
       steeringAngle |-> 0,
       velocity |-> 0]

\* the centre taken half a length ahead of the rear axle, the overhang forgotten
getCarCenter_HalfLength(st, cfg) ==
  [x |-> st.rearAxleX + FMul(Cos(st.heading), RDiv(cfg.length, 2)),
   y |-> st.rearAxleY + FMul(Sin(st.heading), RDiv(cfg.length, 2))]

\* Car.getCarCenter
getCarCenter(st, cfg) ==
  LET centerOffset == CenterOffset(cfg)
  IN  [x |-> st.rearAxleX + FMul(Cos(st.heading), centerOffset),
       y |-> st.rearAxleY + FMul(Sin(st.heading), centerOffset)]

\* positions of the wheels: front left, front right, rear left, rear right
getWheels(st, cfg) ==
  LET halfWidth == RDiv(cfg.width, 2) - 5 * LenScale
      cos == Cos(st.heading)
      sin == Sin(st.heading)
      frontAxleX == st.rearAxleX + FMul(cos, cfg.wheelbase)
      frontAxleY == st.rearAxleY + FMul(sin, cfg.wheelbase)
  IN  << [x |-> frontAxleX - FMul(sin, halfWidth), y |-> frontAxleY + FMul(cos, halfWidth)],
         [x |-> frontAxleX + FMul(sin, halfWidth), y |-> frontAxleY - FMul(cos, halfWidth)],
         [x |-> st.rearAxleX - FMul(sin, halfWidth), y |-> st.rearAxleY + FMul(cos, halfWidth)],
         [x |-> st.rearAxleX + FMul(sin, halfWidth), y |-> st.rearAxleY - FMul(cos, halfWidth)] >>

\* each trail overwritten by the current point instead of extended
recordWheelPositions_Replace(trails, st, cfg) ==
  LET wheels == getWheels(st, cfg)
  IN  [frontLeft |-> <<wheels[1]>>, frontRight |-> <<wheels[2]>>,
       rearLeft |-> <<wheels[3]>>, rearRight |-> <<wheels[4]>>]

\* only the front wheels' positions recorded
recordWheelPositions_FrontOnly(trails, st, cfg) ==
  LET wheels == getWheels(st, cfg)
  IN  [trails EXCEPT !.frontLeft = Append(@, wheels[1]),
                     !.frontRight = Append(@, wheels[2])]

\* Car.recordWheelPositions
recordWheelPositions(trails, st, cfg) ==
  LET wheels == getWheels(st, cfg)
  IN  [frontLeft |-> Append(trails.frontLeft, wheels[1]),
       frontRight |-> Append(trails.frontRight, wheels[2]),
       rearLeft |-> Append(trails.rearLeft, wheels[3]),
       rearRight |-> Append(trails.rearRight, wheels[4])]

\* steering rate, rad/s
steeringSpeed == 5
\* |velocity| above which the car moves, 0.1 px/s
VelocityEps == LenScale \div 10
\* |steeringAngle| above which the heading turns, 0.001 rad
SteeringEps == AngleScale \div 1000

\* input.steeringPosition * config.maxSteeringAngle
TargetSteering(cfg, steeringPosition) == RDiv(steeringPosition * cfg.maxSteeringAngle, 2)

\* the step taken as dt alone, the steering rate forgotten
MaxSteeringChange_NoRate(dt) == RDiv(dt * AngleScale, TimeScale)

\* steeringSpeed * dt
MaxSteeringChange(dt) == RDiv(steeringSpeed * dt * AngleScale, TimeScale)

\* the steering angle set to its target at once, no rate limit
SteerStep_Snap(steeringAngle, cfg, dt, steeringPosition) ==
  TargetSteering(cfg, steeringPosition)

\* the steering angle always moved by the full step, past the target if need be
SteerStep_Overshoot(steeringAngle, cfg, dt, steeringPosition) ==
  LET steeringDiff == TargetSteering(cfg, steeringPosition) - steeringAngle
  IN  IF steeringDiff > 0 THEN steeringAngle + MaxSteeringChange(dt)
      ELSE IF steeringDiff < 0 THEN steeringAngle - MaxSteeringChange(dt)
      ELSE steeringAngle

\* the rate-limited steering angle of update
SteerStep(steeringAngle, cfg, dt, steeringPosition) ==
  LET targetSteering == TargetSteering(cfg, steeringPosition)
      steeringDiff == targetSteering - steeringAngle
      maxSteeringChange == MaxSteeringChange(dt)
  IN  steeringAngle + Max(-maxSteeringChange, Min(maxSteeringChange, steeringDiff))

\* the velocity kept when the movement command is released
CommandedVelocity_Coast(st, cfg, movement) ==
  IF movement = 0 THEN st.velocity ELSE movement * cfg.speed

\* state.velocity = input.movement * config.speed
CommandedVelocity(st, cfg, movement) == movement * cfg.speed

\* the turning radius taken from the car's length instead of its wheelbase
TurnedHeading_Length(st, cfg, dt) ==
  IF Abs(st.steeringAngle) > SteeringEps
  THEN LET turningRadius == RDiv(cfg.length * AngleScale, Tan(st.steeringAngle))
           angularVelocity == RDiv(st.velocity * AngleScale, turningRadius)
       IN  st.heading + RDiv(angularVelocity * dt, TimeScale)
  ELSE st.heading

\* the heading of a moving tick before normalisation
TurnedHeading(st, cfg, dt) ==
  IF Abs(st.steeringAngle) > SteeringEps
  THEN LET turningRadius == RDiv(cfg.wheelbase * AngleScale, Tan(st.steeringAngle))
           angularVelocity == RDiv(st.velocity * AngleScale, turningRadius)
       IN  st.heading + RDiv(angularVelocity * dt, TimeScale)
  ELSE st.heading

\* ((heading % 2 pi) + 2 pi) % 2 pi
NormalizeHeading(h) == JsMod(JsMod(h, TwoPi) + TwoPi, TwoPi)

\* the state once update has set the steering angle and the velocity
Commanded(st, cfg, dt, input) ==
  [st EXCEPT !.steeringAngle = SteerStep(st.steeringAngle, cfg, dt, input.steeringPosition),
             !.velocity = CommandedVelocity(st, cfg, input.movement)]

\* the rear axle translated along the old heading, the heading turned afterwards
UpdateState_TranslateFirst(st, cfg, dt, input) ==
  LET s1 == Commanded(st, cfg, dt, input)
  IN  IF Abs(s1.velocity) > VelocityEps
      THEN [s1 EXCEPT !.heading = NormalizeHeading(TurnedHeading(s1, cfg, dt)),
                      !.rearAxleX = s1.rearAxleX + RDiv(FMul(Cos(s1.heading), s1.velocity) * dt, TimeScale),
                      !.rearAxleY = s1.rearAxleY + RDiv(FMul(Sin(s1.heading), s1.velocity) * dt, TimeScale)]
      ELSE s1

\* the CarState left by update(dt, input)
UpdateState(st, cfg, dt, input) ==
  LET s1 == Commanded(st, cfg, dt, input)
  IN  IF Abs(s1.velocity) > VelocityEps
      THEN LET h == TurnedHeading(s1, cfg, dt)
           IN  [s1 EXCEPT !.heading = NormalizeHeading(h),
                          !.rearAxleX = s1.rearAxleX + RDiv(FMul(Cos(h), s1.velocity) * dt, TimeScale),
                          !.rearAxleY = s1.rearAxleY + RDiv(FMul(Sin(h), s1.velocity) * dt, TimeScale)]
      ELSE s1

\* wheel positions recorded on every tick, moving or not
UpdateTrails_Always(trails, st, cfg, dt, input) ==
  recordWheelPositions(trails, Commanded(st, cfg, dt, input), cfg)

\* wheel positions recorded after the move instead of before it
UpdateTrails_AfterMove(trails, st, cfg, dt, input) ==
  LET s1 == Commanded(st, cfg, dt, input)
  IN  IF Abs(s1.velocity) > VelocityEps
      THEN recordWheelPositions(trails, UpdateState(st, cfg, dt, input), cfg)
      ELSE trails

\* the wheel trails left by update(dt, input)
UpdateTrails(trails, st, cfg, dt, input) ==
  LET s1 == Commanded(st, cfg, dt, input)
  IN  IF Abs(s1.velocity) > VelocityEps
      THEN recordWheelPositions(trails, s1, cfg)
      ELSE trails

\* the rear axle re-derived so that the visual centre stays where it was
SetConfigState_Rederive(st, oldCfg, newCfg) ==
  LET c == getCarCenter(st, oldCfg)
  IN  [st EXCEPT !.rearAxleX = c.x - FMul(Cos(st.heading), CenterOffset(newCfg)),
                 !.rearAxleY = c.y - FMul(Sin(st.heading), CenterOffset(newCfg))]

\* the steering angle clamped to the new profile's lock on a swap
SetConfigState_Clamp(st, oldCfg, newCfg) ==
  [st EXCEPT !.steeringAngle =
     Max(-newCfg.maxSteeringAngle, Min(newCfg.maxSteeringAngle, st.steeringAngle))]

\* the CarState left by setConfig: only this.config is assigned
SetConfigState(st, oldCfg, newCfg) == st

\* reset without its clearTrails() call
ResetTrails_Keep(trails) == trails

\* the wheel trails left by reset, which ends in clearTrails()
ResetTrails(trails) == EmptyTrails

\* the count of moving ticks once a tick has left the car in state st
TicksAfter(n, st) == IF st.velocity # 0 THEN n + 1 ELSE n

Snapshot == [state |-> state, config |-> config, wheelTrails |-> wheelTrails]

NoArgs == [dt |-> 0, movement |-> 0, steeringPosition |-> 0, x |-> 0, y |-> 0, heading |-> 0]

\* ------------------------------------------------------------- controls
\* the keys getInput looks at, as stored: e.key.toLowerCase()
Keys == {"arrowup", "arrowdown", "a", "s", "d", "f", "g"}

\* new Controls(): no key held, touch movement 0, touch steering 0; active is
\* the set of steering buttons (by value, in halves) carrying the 'active' class.
\* Three fields are history kept for the properties: held is the set of
\* movement buttons a finger or the mouse is down on, steered tells whether a
\* steering key or button was pressed or resetSteering ran, and fresh tells
\* whether getInput was the last thing to happen.
ControlsNew(active) ==
  [keys |-> {}, touchMovement |-> 0, touchSteering |-> 0, active |-> active,
   held |-> {}, steered |-> FALSE, fresh |-> FALSE]

\* the touch movement never cleared by a release
TouchAfterEnd_Keep(touchMovement, value) == touchMovement

\* the touch movement left by the end listener of the button of value
TouchAfterEnd(touchMovement, value) ==
  IF touchMovement = value THEN 0 ELSE touchMovement

\* Controls.updateSteeringButtons: the button of the position gets the class,
\* every other button loses it
updateSteeringButtons(active, position) ==
  (active \cup {position}) \ (SteeringPosition \ {position})

\* the steering position of the first held key in the order a, s, d, f, g
KeySteering(keys) ==
  IF "a" \in keys THEN -2
  ELSE IF "s" \in keys THEN -1
  ELSE IF "d" \in keys THEN 0
  ELSE IF "f" \in keys THEN 1
  ELSE 2

SteeringKeyHeld(keys) == keys \cap {"a", "s", "d", "f", "g"} # {}

\* keyboard and touch movement added up instead of the keyboard taking over
GetInput_Sum(c) ==
  [movement |-> c.touchMovement
                  + (IF "arrowup" \in c.keys THEN 1 ELSE 0)
                  - (IF "arrowdown" \in c.keys THEN 1 ELSE 0),
   steeringPosition |-> IF SteeringKeyHeld(c.keys) THEN KeySteering(c.keys)
                        ELSE c.touchSteering]

\* ArrowDown looked at before ArrowUp
GetInput_ReverseFirst(c) ==
  [movement |-> IF "arrowdown" \in c.keys THEN -1
                ELSE IF "arrowup" \in c.keys THEN 1
                ELSE c.touchMovement,
   steeringPosition |-> IF SteeringKeyHeld(c.keys) THEN KeySteering(c.keys)
                        ELSE c.touchSteering]

\* the value returned by Controls.getInput
GetInput(c) ==
  [movement |-> IF "arrowup" \in c.keys THEN 1
                ELSE IF "arrowdown" \in c.keys THEN -1
                ELSE c.touchMovement,
   steeringPosition |-> IF SteeringKeyHeld(c.keys) THEN KeySteering(c.keys)
                        ELSE c.touchSteering]

\* the Controls object left by getInput: a held steering key marks its button
AfterGetInput(c) ==
  IF SteeringKeyHeld(c.keys)
  THEN [c EXCEPT !.active = updateSteeringButtons(c.active, KeySteering(c.keys))]
  ELSE c

\* the controls left alone by a load or reset
resetSteering_Keep(c) == c

\* Controls.resetSteering
resetSteering(c) ==
  [c EXCEPT !.touchSteering = 0, !.active = updateSteeringButtons(@, 0)]

NoInput == [movement |-> 0, steeringPosition |-> 0]

\* ---------------------------------------------------------- map storage
\* names and contents of saved maps
\* the property name that Object.prototype answers with an accessor
ProtoName == "__proto__"
MapNames == {"m1", "m2", ProtoName}
MapDatas == {"d1", "d2"}
\* what a lookup of a missing property yields, returned by loadMap as null
Absent == "absent"

\* what maps["__proto__"] yields on an object without such an own property
ObjectPrototype == "Object.prototype"

\* the object {} : no name has a map
EmptyObject == [n \in MapNames |-> Absent]

\* The text stored under STORAGE_KEY.  kind "none": no item; "garbage": text
\* that is not JSON; "null" and "number": the JSON texts null and 5; "maps": the
\* JSON text of an object of maps, whose properties are in maps.
Text(kind, maps) == [kind |-> kind, maps |-> maps]

StoredTexts ==
  {Text(k, EmptyObject) : k \in {"none", "garbage", "null", "number"}}
    \cup {Text("maps", f) : f \in [MapNames -> MapDatas \cup {Absent}]}

\* JSON.parse of a stored text that is JSON: an object, null or a number
JsonParse(text) ==
  [kind |-> IF text.kind = "maps" THEN "object" ELSE text.kind, maps |-> text.maps]

\* JSON.stringify
JsonStringify(value) ==
  Text(IF value.kind = "object" THEN "maps" ELSE value.kind, value.maps)

\* getSavedMaps(): {} when getItem throws, when there is no item and when
\* JSON.parse throws, otherwise whatever JSON.parse returns
getSavedMaps(st) ==
  IF st.fails \/ st.text.kind \in {"none", "garbage"}
  THEN [kind |-> "object", maps |-> EmptyObject]
  ELSE JsonParse(st.text)

\* The own properties left by maps[name] = data.  An own property is created or
\* overwritten, except that without an own "__proto__" property the
\* assignment reaches the accessor of Object.prototype, which replaces the
\* prototype and creates no own property.
SetProperty(props, name, data) ==
  IF name = ProtoName /\ props[name] = Absent THEN props
  ELSE [props EXCEPT ![name] = data]

\* maps[name]: the own property, else what the prototype chain answers
GetProperty(props, name) ==
  IF props[name] # Absent THEN props[name]
  ELSE IF name = ProtoName THEN ObjectPrototype
  ELSE Absent

\* the storage left by saveMap(name, data): maps[name] = data throws on null
\* and on a number, setItem throws when the storage fails; both are caught
saveMap(st, name, data) ==
  LET maps == getSavedMaps(st)
  IN  IF maps.kind # "object" \/ st.fails THEN st
      ELSE [st EXCEPT !.text =
              JsonStringify([maps EXCEPT !.maps = SetProperty(@, name, data)])]

\* the storage left by deleteMap(name): delete maps[name] throws on null only
deleteMap(st, name) ==
  LET maps == getSavedMaps(st)
  IN  IF maps.kind = "null" \/ st.fails THEN st
      ELSE IF maps.kind = "number" THEN [st EXCEPT !.text = JsonStringify(maps)]
      ELSE [st EXCEPT !.text =
              JsonStringify([maps EXCEPT !.maps = [@ EXCEPT ![name] = Absent]])]

\* Object.keys(value) and value[name] throw a TypeError when value is null
ThrowsOnNull(st) == getSavedMaps(st).kind = "null"

\* the value of getMapNames() when it returns
getMapNames(st) ==
  LET maps == getSavedMaps(st)
  IN  IF maps.kind = "object" THEN {n \in MapNames : maps.maps[n] # Absent} ELSE {}

\* the value of loadMap(name) when it returns: maps[name] || null
loadMap(st, name) ==
  LET maps == getSavedMaps(st)
  IN  IF maps.kind = "object" THEN GetProperty(maps.maps, name) ELSE Absent

\* localStorage access throws, or the stored text is not an object of maps
BadStorage(st) == st.fails \/ st.text.kind \in {"garbage", "null", "number"}

\* ------------------------------------------------------------ game loop
\* the canvas of the page, in CSS pixels
CanvasWidth == 800 * LenScale
CanvasHeight == 600 * LenScale

\* bounds of the free-drive scenario: the canvas less its grass border
borderWidth == 40 * LenScale
FreeBounds ==
  [minX |-> borderWidth, minY |-> borderWidth,
   maxX |-> CanvasWidth - borderWidth, maxY |-> CanvasHeight - borderWidth]

margin == 50 * LenScale

\* createFreeDriveScenario(width, height, difficulty): carStart and bounds
createFreeDriveScenario ==
  [name |-> "free",
   carStart |-> [x |-> CanvasWidth \div 2, y |-> CanvasHeight \div 2, heading |-> 0],
   bounds |-> FreeBounds]

\* createParallelParkingScenario(width, height, 'medium'): carStart and bounds
createParallelParkingScenario ==
  LET gapSize == RDiv(PICANTO_CONFIG.length * 16, 10)
      parkingLaneHeight == PICANTO_CONFIG.width + 20 * LenScale
      drivingLaneHeight == 100 * LenScale
      roadTopY == (50 + 35 + 8) * LenScale
      roadHeight == parkingLaneHeight + drivingLaneHeight * 2 + parkingLaneHeight
      roadBottomY == roadTopY + roadHeight
      gapCentreX == RDiv(CanvasWidth * 45, 100)
      startX == gapCentreX + gapSize \div 2 + PICANTO_CONFIG.length + 100 * LenScale
      startY == roadTopY + parkingLaneHeight + drivingLaneHeight \div 2
  IN  [name |-> "parallel",
       carStart |-> [x |-> startX, y |-> startY, heading |-> Pi],
       bounds |-> [minX |-> 10 * LenScale, minY |-> roadTopY,
                   maxX |-> CanvasWidth - 10 * LenScale, maxY |-> roadBottomY]]

\* createBayParkingScenario(width, height, difficulty): carStart and bounds
createBayParkingScenario ==
  [name |-> "bay",
   carStart |-> [x |-> CanvasWidth \div 2, y |-> RDiv(CanvasHeight * 75, 100),
                 heading |-> -HalfPi],
   bounds |-> FreeBounds]

\* getScenario(name, width, height, difficulty)
getScenario(name) ==
  CASE name = "parallel" -> createParallelParkingScenario
    [] name = "bay" -> createBayParkingScenario
    [] OTHER -> createFreeDriveScenario

\* the scenario loadCustomMap builds from a custom map
CustomScenario(data) ==
  [name |-> "custom",
   carStart |-> data.startPosition,
   bounds |-> [minX |-> 0, minY |-> 0, maxX |-> CanvasWidth, maxY |-> CanvasHeight]]

\* the scenario buttons of the page
ScenarioNames == {"free", "parallel", "bay", "custom"}

\* the cap of gameLoop on dt, 0.1 s
DtCap == TimeScale \div 10

\* performance.now() read by start(), in ms
StartTimes == {1000, 1004}
\* timestamps handed to the animation-frame callback, in ms
FrameTimes == {1000, 1016, 1300}

\* the car the constructor creates at the free scenario's carStart
StartState == PoseState(CanvasWidth \div 2, CanvasHeight \div 2, 0, PICANTO_CONFIG)

\* the clamp of ParkingSimulator.update on the rear axle
ClampToBounds(st, b) ==
  [st EXCEPT !.rearAxleX = Max(b.minX + margin, Min(b.maxX - margin, @)),
             !.rearAxleY = Max(b.minY + margin, Min(b.maxY - margin, @))]

\* the CarState left by ParkingSimulator.update(dt) in drive mode
AppUpdateState(st, cfg, dt, input, b) ==
  ClampToBounds(UpdateState(st, cfg, dt, input), b)

\* The CarState left by the update(dt) of main.ts.  Its clamp reads and
\* assigns car.state.x and car.state.y, properties that CarState does not have
\* and that nothing else reads: the rear axle is as Car.update left it.
MainUpdateState(st, cfg, dt, input, b) ==
  UpdateState(st, cfg, dt, input)

\* render drawing the car as it was before this iteration's update
RenderedCar_Stale(before, after) == before

\* the car render reads: gameLoop calls update(dt) and then render()
RenderedCar(before, after) == after

\* no custom map loaded: customMapData === null
NoMapData ==
  [loaded |-> FALSE, objects |-> <<>>, startPosition |-> [x |-> 0, y |-> 0, heading |-> 0]]

\* The application: mode, lastTime, scenario, currentScenarioName and
\* customMapData are its fields; frames counts the iterations of gameLoop and
\* steps the other events; event is the last thing that happened; dt,
\* frameMode, updateCalls, view and rendered describe the last iteration: the
\* dt it computed, the mode it ran in, how often it called Car.update, what
\* render drew and the car render read.
SimNew(lastTime) ==
  [mode |-> "drive", lastTime |-> lastTime, frames |-> 0, dt |-> 0,
   frameMode |-> "drive", updateCalls |-> 0, view |-> "none",
   rendered |-> StartState,
   scenario |-> getScenario("free"), currentScenarioName |-> "free",
   customMapData |-> NoMapData, steps |-> 0, event |-> "start"]

\* --------------------------------------------------------------- editor
\* ToolType, without 'curb' and 'parking' as inputs (placeObject has them)
Tools == {"select", "car", "wall", "start"}

\* selectedId === null, and the id of the start marker
NullId == "null"
StartId == "start"

\* the id placeObject gives its n-th object; Date.now() and Math.random()
\* make every id new
NewId(n) == "obj_" \o ToString(n)

\* canvas points of the pointer events
Points ==
  { [x |-> 400 * LenScale, y |-> 300 * LenScale],
    [x |-> 420 * LenScale, y |-> 300 * LenScale],
    [x |-> 200 * LenScale, y |-> 300 * LenScale] }

\* rotateSelected's step, Math.PI / 12
RotationStep == Pi \div 12
\* the calls of rotateSelected that make a full turn
FullTurn == TwoPi \div RotationStep
\* what the rounding of a floating-point sum can add to it, in angle units
RoundErr == {-1, 0, 1}

\* width and height of the object placeObject makes with a tool
ObjectSize(tool) ==
  CASE tool = "car" -> [width |-> PICANTO_CONFIG.length, height |-> PICANTO_CONFIG.width]
    [] tool = "wall" -> [width |-> 150 * LenScale, height |-> 15 * LenScale]
    [] tool = "curb" -> [width |-> 200 * LenScale, height |-> 10 * LenScale]
    [] tool = "parking" -> [width |-> 70 * LenScale, height |-> 130 * LenScale]

\* a MapObject (carSize left out)
MapObject(id, tool, x, y, rotation) ==
  [id |-> id, type |-> tool, x |-> x, y |-> y, width |-> ObjectSize(tool).width,
   height |-> ObjectSize(tool).height, rotation |-> rotation]

\* Editor.isPointInObject: the point in the object's frame lies inside its box
isPointInObject(x, y, obj) ==
  LET dx == x - obj.x
      dy == y - obj.y
      cos == Cos(-obj.rotation)
      sin == Sin(-obj.rotation)
      localX == dx * cos - dy * sin
      localY == dx * sin + dy * cos
  IN  /\ 2 * Abs(RDiv(localX, AngleScale)) < obj.width
      /\ 2 * Abs(RDiv(localY, AngleScale)) < obj.height

\* Editor.getObjectAt: the index of the topmost object at the point, 0 for null
getObjectAt(objects, x, y) ==
  LET hits == {i \in 1..Len(objects) : isPointInObject(x, y, objects[i])}
  IN  IF hits = {} THEN 0 ELSE CHOOSE i \in hits : \A j \in hits : j <= i

\* Editor.isNearStartPosition: closer than 30 px
isNearStartPosition(start, x, y) ==
  LET dx == x - start.x
      dy == y - start.y
      r == 30 * LenScale
  IN  Abs(dx) < r /\ Abs(dy) < r /\ dx * dx + dy * dy < r * r

\* the index of the object with the id, 0 for none: objects.find
FindObject(objects, id) ==
  LET found == {i \in 1..Len(objects) : objects[i].id = id}
  IN  IF found = {} THEN 0 ELSE CHOOSE i \in found : \A j \in found : i <= j

\* new Editor(canvas, defaultWidth, defaultHeight); nextId counts the objects
\* placed so far.  Four fields are history kept for the properties: pressed
\* tells whether the pointer is down, grabbed is the item a select-tool
\* pointer-down hit and the pointer has not let go of since (NullId for none),
\* event is the last thing that happened and calls counts the events.
EditorNew ==
  [objects |-> <<>>,
   startPosition |-> [x |-> CanvasWidth \div 2, y |-> CanvasHeight \div 2, heading |-> 0],
   selectedId |-> NullId, currentTool |-> "select", isDragging |-> FALSE,
   dragOffset |-> [x |-> 0, y |-> 0], nextId |-> 1,
   pressed |-> FALSE, grabbed |-> NullId, event |-> "new", calls |-> 0]

\* Editor.placeObject
placeObject(e, x, y) ==
  IF e.currentTool \in {"car", "wall", "curb", "parking"}
  THEN [e EXCEPT !.objects = Append(@, MapObject(NewId(e.nextId), e.currentTool, x, y, 0)),
                 !.selectedId = NewId(e.nextId),
                 !.nextId = @ + 1]
  ELSE e

\* Editor.handlePointerDown
handlePointerDown(e, x, y) ==
  LET i == getObjectAt(e.objects, x, y)
  IN  IF e.currentTool = "select"
      THEN IF i # 0
           THEN [e EXCEPT !.selectedId = e.objects[i].id, !.isDragging = TRUE,
                          !.dragOffset = [x |-> x - e.objects[i].x, y |-> y - e.objects[i].y]]
           ELSE IF isNearStartPosition(e.startPosition, x, y)
           THEN [e EXCEPT !.selectedId = StartId, !.isDragging = TRUE,
                          !.dragOffset = [x |-> x - e.startPosition.x,
                                          y |-> y - e.startPosition.y]]
           ELSE [e EXCEPT !.selectedId = NullId]
      ELSE IF e.currentTool = "start"
      THEN [e EXCEPT !.startPosition.x = x, !.startPosition.y = y, !.selectedId = StartId]
      ELSE placeObject(e, x, y)

\* Editor.handlePointerMove
handlePointerMove(e, x, y) ==
  LET i == FindObject(e.objects, e.selectedId)
  IN  IF ~e.isDragging THEN e
      ELSE IF e.selectedId = StartId
      THEN [e EXCEPT !.startPosition.x = x - e.dragOffset.x,
                     !.startPosition.y = y - e.dragOffset.y]
      ELSE IF e.selectedId # NullId /\ i # 0
      THEN [e EXCEPT !.objects[i].x = x - e.dragOffset.x,
                     !.objects[i].y = y - e.dragOffset.y]
      ELSE e

\* Editor.handlePointerUp
handlePointerUp(e) == [e EXCEPT !.isDragging = FALSE]

\* Editor.setTool
setTool(e, tool) ==
  [e EXCEPT !.currentTool = tool,
            !.selectedId = IF tool # "select" THEN NullId ELSE @]

\* a rotation never brought back below 2 pi
WrapRotation_None(h) == h

\* the wrap of rotateSelected: 2 pi is taken off a value that reached it
WrapRotation(h) == IF h >= TwoPi THEN h - TwoPi ELSE h

\* Editor.rotateSelected; err is the rounding of the floating-point sum
rotateSelected(e, err) ==
  LET i == FindObject(e.objects, e.selectedId)
  IN  IF e.selectedId = StartId
      THEN [e EXCEPT !.startPosition.heading = WrapRotation(@ + RotationStep + err)]
      ELSE IF e.selectedId # NullId /\ i # 0
      THEN [e EXCEPT !.objects[i].rotation = WrapRotation(@ + RotationStep + err)]
      ELSE e

\* the selection kept by deleteSelected
SelectedAfterDelete_Keep(id) == id

\* the selection left by deleteSelected
SelectedAfterDelete(id) == NullId

\* Editor.deleteSelected
deleteSelected(e) ==
  IF e.selectedId # NullId /\ e.selectedId # StartId
  THEN [e EXCEPT !.objects = SelectSeq(@, LAMBDA o : o.id # e.selectedId),
                 !.selectedId = SelectedAfterDelete(@)]
  ELSE e

\* Editor.clear
clear(e) == [e EXCEPT !.objects = <<>>, !.selectedId = NullId]

\* Editor.getMapData (the name left out)
getMapData(e) == [objects |-> e.objects, startPosition |-> e.startPosition]

\* Editor.loadMapData
loadMapData(e, data) ==
  [e EXCEPT !.objects = data.objects, !.startPosition = data.startPosition,
            !.selectedId = NullId]

\* maps a load dialog can hand to the editor and the application
SavedMaps ==
  { [objects |-> <<>>,
     startPosition |-> [x |-> 700 * LenScale, y |-> 300 * LenScale, heading |-> Pi]],
    [objects |-> << MapObject("obj_saved", "wall", 200 * LenScale, 300 * LenScale, RotationStep) >>,
     startPosition |-> [x |-> 420 * LenScale, y |-> 300 * LenScale, heading |-> RotationStep]] }

\* --------------------------------------------------------- idle collaborators
StorageIdle == [text |-> Text("none", EmptyObject), fails |-> FALSE]
ResultIdle ==
  [op |-> "none", name |-> "none", bad |-> FALSE, threw |-> FALSE,
   before |-> Text("none", EmptyObject), names |-> {}, value |-> Absent]
SimIdle == SimNew(0)
EditorIdle == EditorNew

\* the collaborators as they are while only the car is exercised
OthersIdle ==
  /\ controls = ControlsNew({})
  /\ inputState = NoInput
  /\ storage = StorageIdle
  /\ result = ResultIdle
  /\ sim = SimIdle
  /\ editor = EditorIdle

\* ---------------------------------------------------------------- actions
\* new Car(x, y, heading, config)
Init ==
  \E p \in Poses, cfg \in ConfigSet :
    /\ config = cfg
    /\ state = PoseState(p.x, p.y, p.heading, cfg)
    /\ wheelTrails = EmptyTrails
    /\ last = [NoArgs EXCEPT !.x = p.x, !.y = p.y, !.heading = p.heading] @@ [op |-> "new"]
    /\ prev = [state |-> PoseState(p.x, p.y, p.heading, cfg), config |-> cfg,
               wheelTrails |-> EmptyTrails]
    /\ ops = 0
    /\ movingTicks = 0
    /\ OthersIdle

\* car.update(dt, input)
Update ==
  /\ ops < MaxOps
  /\ \E dt \in DtSet, m \in Movement, sp \in SteeringPosition :
       LET input == [movement |-> m, steeringPosition |-> sp]
       IN  /\ state' = UpdateState(state, config, dt, input)
           /\ wheelTrails' = UpdateTrails(wheelTrails, state, config, dt, input)
           /\ last' = [NoArgs EXCEPT !.dt = dt, !.movement = m, !.steeringPosition = sp]
                        @@ [op |-> "update"]
  /\ prev' = Snapshot
  /\ ops' = ops + 1
  /\ movingTicks' = TicksAfter(movingTicks, state')
  /\ UNCHANGED <<config, others>>

\* car.setConfig(config)
SetConfig ==
  /\ ops < MaxOps
  /\ \E cfg \in ConfigSet :
       /\ config' = cfg
       /\ state' = SetConfigState(state, config, cfg)
  /\ last' = NoArgs @@ [op |-> "setConfig"]
  /\ prev' = Snapshot
  /\ ops' = ops + 1
  /\ UNCHANGED <<wheelTrails, movingTicks, others>>

\* car.clearTrails()
ClearTrails ==
  /\ ops < MaxOps
  /\ wheelTrails' = EmptyTrails
  /\ last' = NoArgs @@ [op |-> "clearTrails"]
  /\ prev' = Snapshot
  /\ ops' = ops + 1
  /\ movingTicks' = 0
  /\ UNCHANGED <<state, config, others>>

\* car.reset(x, y, heading)
Reset ==
  /\ ops < MaxOps
  /\ \E p \in Poses :
       /\ state' = PoseState(p.x, p.y, p.heading, config)
       /\ last' = [NoArgs EXCEPT !.x = p.x, !.y = p.y, !.heading = p.heading] @@ [op |-> "reset"]
  /\ wheelTrails' = ResetTrails(wheelTrails)
  /\ prev' = Snapshot
  /\ ops' = ops + 1
  /\ movingTicks' = 0
  /\ UNCHANGED <<config, others>>

Next == Update \/ SetConfig \/ ClearTrails \/ Reset

Spec == Init /\ [][Next]_vars

\* ------------------------------------------------- holding a steering position
\* steering angles a car can rest at: the targets of every profile
RestAngles == {TargetSteering(cfg, sp) : cfg \in ConfigSet, sp \in SteeringPosition}

\* the shortest time handed to update while a position is held
MinDt == CHOOSE d \in DtSet : \A e \in DtSet : d <= e

\* A standing car whose steering rests at some angle; one steering position,
\* kept in last.steeringPosition, is commanded from now on.  prev keeps the
\* state the hold began in.
HoldInit ==
  \E cfg \in ConfigSet, a \in RestAngles, sp \in SteeringPosition :
    LET p == CHOOSE q \in Poses : q.heading = 0
        st == [PoseState(p.x, p.y, p.heading, cfg) EXCEPT !.steeringAngle = a]
    IN  /\ config = cfg
        /\ state = st
        /\ wheelTrails = EmptyTrails
        /\ last = [NoArgs EXCEPT !.steeringPosition = sp] @@ [op |-> "new"]
        /\ prev = [state |-> st, config |-> cfg, wheelTrails |-> EmptyTrails]
        /\ ops = 0
        /\ movingTicks = 0
        /\ OthersIdle

\* car.update(dt, {movement: 0, steeringPosition}) with the held position
HoldTick ==
  /\ ops < MaxSteerTicks
  /\ \E dt \in DtSet :
       LET input == [movement |-> 0, steeringPosition |-> last.steeringPosition]
       IN  /\ state' = UpdateState(state, config, dt, input)
           /\ wheelTrails' = UpdateTrails(wheelTrails, state, config, dt, input)
           /\ last' = [last EXCEPT !.dt = dt, !.op = "update"]
  /\ ops' = ops + 1
  /\ movingTicks' = TicksAfter(movingTicks, state')
  /\ UNCHANGED <<config, prev, others>>

HoldNext == HoldTick

SpecHold == HoldInit /\ [][HoldNext]_vars

\* ------------------------------------------------------ the controls alone
\* the car as it is while only a collaborator is exercised
CarIdle ==
  LET p == CHOOSE q \in Poses : q.heading = 0
      st == PoseState(p.x, p.y, p.heading, PICANTO_CONFIG)
  IN  /\ config = PICANTO_CONFIG
      /\ state = st
      /\ wheelTrails = EmptyTrails
      /\ last = [NoArgs EXCEPT !.x = p.x, !.y = p.y, !.heading = p.heading] @@ [op |-> "new"]
      /\ prev = [state |-> st, config |-> PICANTO_CONFIG, wheelTrails |-> EmptyTrails]
      /\ ops = 0
      /\ movingTicks = 0

carVars == <<state, config, wheelTrails, last, prev, ops, movingTicks>>

\* new Controls(); the page may or may not mark the straight button at load
ControlsInit ==
  /\ CarIdle
  /\ \E active \in {{}, {0}} : controls = ControlsNew(active)
  /\ inputState = NoInput
  /\ storage = StorageIdle
  /\ result = ResultIdle
  /\ sim = SimIdle
  /\ editor = EditorIdle

\* window 'keydown'
KeyDown(k) ==
  /\ controls' = [controls EXCEPT !.keys = @ \cup {k},
                                  !.steered = @ \/ k \in {"a", "s", "d", "f", "g"},
                                  !.fresh = FALSE]
  /\ UNCHANGED inputState

\* window 'keyup'
KeyUp(k) ==
  /\ controls' = [controls EXCEPT !.keys = @ \ {k}, !.fresh = FALSE]
  /\ UNCHANGED inputState

\* window 'blur'
Blur ==
  /\ controls' = [controls EXCEPT !.keys = {}, !.fresh = FALSE]
  /\ UNCHANGED inputState

\* touchstart / mousedown on the forward (1) or reverse (-1) button
MovementStart(value) ==
  /\ controls' = [controls EXCEPT !.touchMovement = value,
                                  !.held = @ \cup {value}, !.fresh = FALSE]
  /\ UNCHANGED inputState

\* touchend / touchcancel / mouseup / mouseleave on a movement button
MovementEnd(value) ==
  /\ controls' = [controls EXCEPT !.touchMovement = TouchAfterEnd(@, value),
                                  !.held = @ \ {value}, !.fresh = FALSE]
  /\ UNCHANGED inputState

\* touchstart / mousedown on a steering button
SteeringClick(value) ==
  /\ controls' = [controls EXCEPT !.touchSteering = value,
                                  !.active = updateSteeringButtons(@, value),
                                  !.steered = TRUE, !.fresh = FALSE]
  /\ UNCHANGED inputState

\* controls.getInput()
GetInputCall ==
  /\ inputState' = GetInput(controls)
  /\ controls' = [AfterGetInput(controls) EXCEPT !.fresh = TRUE]

\* controls.resetSteering()
ResetSteering ==
  /\ controls' = [resetSteering(controls) EXCEPT !.steered = TRUE, !.fresh = FALSE]
  /\ UNCHANGED inputState

ControlsNext ==
  /\ \/ \E k \in Keys : KeyDown(k)
     \/ \E k \in Keys : KeyUp(k)
     \/ Blur
     \/ \E v \in {-1, 1} : MovementStart(v)
     \/ \E v \in {-1, 1} : MovementEnd(v)
     \/ \E v \in SteeringPosition : SteeringClick(v)
     \/ GetInputCall
     \/ ResetSteering
  /\ UNCHANGED <<carVars, storage, result, sim, editor>>

SpecControls == ControlsInit /\ [][ControlsNext]_vars

\* --------------------------------------------------- the map storage alone
\* the outcome of a map-storage call made in the current state
Outcome(op, name, threw, names, value) ==
  [op |-> op, name |-> name, bad |-> BadStorage(storage), threw |-> threw,
   before |-> storage.text, names |-> names, value |-> value]

\* localStorage holds whatever an earlier session or another script left
StorageInit ==
  /\ CarIdle
  /\ controls = ControlsNew({})
  /\ inputState = NoInput
  /\ storage \in [text : StoredTexts, fails : BOOLEAN]
  /\ result = ResultIdle
  /\ sim = SimIdle
  /\ editor = EditorIdle

GetSavedMapsCall ==
  /\ result' = Outcome("getSavedMaps", "none", FALSE, getMapNames(storage), Absent)
  /\ UNCHANGED storage

SaveMapCall ==
  \E n \in MapNames, data \in MapDatas :
    /\ storage' = saveMap(storage, n, data)
    /\ result' = Outcome("saveMap", n, FALSE, {}, data)

DeleteMapCall ==
  \E n \in MapNames :
    /\ storage' = deleteMap(storage, n)
    /\ result' = Outcome("deleteMap", n, FALSE, {}, Absent)

GetMapNamesCall ==
  /\ result' = Outcome("getMapNames", "none", ThrowsOnNull(storage), getMapNames(storage), Absent)
  /\ UNCHANGED storage

LoadMapCall ==
  \E n \in MapNames :
    /\ result' = Outcome("loadMap", n, ThrowsOnNull(storage), {}, loadMap(storage, n))
    /\ UNCHANGED storage

StorageNext ==
  /\ \/ GetSavedMapsCall
     \/ SaveMapCall
     \/ DeleteMapCall
     \/ GetMapNamesCall
     \/ LoadMapCall
  /\ UNCHANGED <<carVars, controls, inputState, sim, editor>>

SpecStorage == StorageInit /\ [][StorageNext]_vars

\* ------------------------------------------------------- the editor alone
EditorInit ==
  /\ CarIdle
  /\ controls = ControlsNew({})
  /\ inputState = NoInput
  /\ storage = StorageIdle
  /\ result = ResultIdle
  /\ sim = SimIdle
  /\ editor = EditorNew

\* the item a select-tool pointer-down at the point takes hold of
Grabbed(e, x, y) ==
  LET i == getObjectAt(e.objects, x, y)
  IN  IF e.currentTool # "select" THEN NullId
      ELSE IF i # 0 THEN e.objects[i].id
      ELSE IF isNearStartPosition(e.startPosition, x, y) THEN StartId
      ELSE NullId

Happened(e, event) == [e EXCEPT !.event = event, !.calls = @ + 1]

\* canvas 'mousedown', or 'touchstart' of one finger
PointerDown ==
  /\ ~editor.pressed
  /\ \E pt \in Points :
       editor' = [Happened(handlePointerDown(editor, pt.x, pt.y), "down") EXCEPT
                    !.pressed = TRUE, !.grabbed = Grabbed(editor, pt.x, pt.y)]

\* canvas 'mousemove' (button down or not), or 'touchmove' of one finger
PointerMove ==
  \E pt \in Points :
    editor' = Happened(handlePointerMove(editor, pt.x, pt.y), "move")

\* canvas 'mouseup' or 'touchend'
PointerUp ==
  /\ editor.pressed
  /\ editor' = [Happened(handlePointerUp(editor), "up") EXCEPT
                  !.pressed = FALSE, !.grabbed = NullId]

\* the mouse button let go of outside the canvas: the canvas gets no 'mouseup'
\* and no handler of the editor runs
ReleaseOutside ==
  /\ editor.pressed
  /\ editor' = [Happened(editor, "releaseOutside") EXCEPT
                  !.pressed = FALSE, !.grabbed = NullId]

\* editor.setTool(tool)
SetTool ==
  \E tool \in Tools : editor' = Happened(setTool(editor, tool), "setTool")

\* editor.rotateSelected(): the rotate button, or the key r
RotateSelected ==
  \E err \in RoundErr : editor' = Happened(rotateSelected(editor, err), "rotate")

\* editor.deleteSelected(): the delete button, or the keys Delete and Backspace
DeleteSelected ==
  editor' = Happened(deleteSelected(editor), "delete")

\* editor.clear()
Clear ==
  editor' = Happened(clear(editor), "clear")

\* editor.loadMapData(data)
LoadMapData ==
  \E data \in SavedMaps : editor' = Happened(loadMapData(editor, data), "loadMapData")

EditorNext ==
  /\ editor.calls < MaxEdits
  /\ \/ PointerDown
     \/ PointerMove
     \/ PointerUp
     \/ ReleaseOutside
     \/ SetTool
     \/ RotateSelected
     \/ DeleteSelected
     \/ Clear
     \/ LoadMapData
  /\ UNCHANGED <<carVars, controls, inputState, storage, result, sim>>

SpecEditor == EditorInit /\ [][EditorNext]_vars

\* ------------------------------------------------- rotating the selection
\* the editor once a car was placed at a point with the car tool
CarPlaced ==
  LET pt == CHOOSE q \in Points : q.x = 200 * LenScale
  IN  placeObject(setTool(EditorNew, "car"), pt.x, pt.y)

\* the editor with one car and the start marker, either of them selected: the
\* car just placed, or the marker clicked with the select tool afterwards
RotateInit ==
  /\ CarIdle
  /\ controls = ControlsNew({})
  /\ inputState = NoInput
  /\ storage = StorageIdle
  /\ result = ResultIdle
  /\ sim = SimIdle
  /\ editor \in
       { CarPlaced,
         handlePointerUp(handlePointerDown(setTool(CarPlaced, "select"),
                                           CarPlaced.startPosition.x,
                                           CarPlaced.startPosition.y)) }

\* editor.rotateSelected(), again and again
RotateAgain ==
  /\ editor.calls < MaxRotations
  /\ RotateSelected
  /\ UNCHANGED <<carVars, controls, inputState, storage, result, sim>>

RotateNext == RotateAgain

SpecRotate == RotateInit /\ [][RotateNext]_vars

\* ----------------------------------------------------------- the game loop
\* the application after its constructor, which ends in start()
LoopInit ==
  /\ CarIdle
  /\ controls = ControlsNew({})
  /\ inputState = NoInput
  /\ storage = StorageIdle
  /\ result = ResultIdle
  /\ \E now \in StartTimes : sim = SimNew(now)
  /\ editor = EditorNew

\* the keys pressed while the loop runs
LoopKeys == {"arrowup", "arrowdown", "a"}
\* the steering buttons pressed while the loop runs
LoopButtons == {-2, 1}

\* an event of the application other than an animation frame
Step(s, event) == [s EXCEPT !.event = event, !.steps = @ + 1]

\* car.reset(carStart.x, carStart.y, carStart.heading); controls.resetSteering()
ResetTo(carStart) ==
  /\ state' = PoseState(carStart.x, carStart.y, carStart.heading, config)
  /\ wheelTrails' = ResetTrails(wheelTrails)
  /\ last' = [NoArgs EXCEPT !.x = carStart.x, !.y = carStart.y,
                            !.heading = carStart.heading] @@ [op |-> "reset"]
  /\ prev' = Snapshot
  /\ movingTicks' = 0
  /\ controls' = [resetSteering(controls) EXCEPT !.steered = TRUE, !.fresh = FALSE]
  /\ UNCHANGED <<config, ops, inputState>>

\* the scenario loadScenario(name) installs
LoadedScenario(name) ==
  IF name = "custom" /\ sim.customMapData.loaded
  THEN CustomScenario(sim.customMapData)
  ELSE getScenario(name)

\* loadScenario(name): a scenario button
LoadScenario ==
  /\ \E name \in ScenarioNames :
       /\ sim' = [Step(sim, "load") EXCEPT !.currentScenarioName = name,
                                           !.scenario = LoadedScenario(name)]
       /\ ResetTo(LoadedScenario(name).carStart)
  /\ UNCHANGED <<storage, result, editor>>

\* reset(): the reset button
ResetButton ==
  /\ sim' = Step(sim, "reset")
  /\ ResetTo(sim.scenario.carStart)
  /\ UNCHANGED <<storage, result, editor>>

\* setMode(mode): going to drive mode with the custom scenario selected and a
\* custom map at hand runs loadCustomMap()
SetMode ==
  /\ \E mode \in {"drive", "edit"} :
       IF mode = "drive" /\ sim.currentScenarioName = "custom" /\ sim.customMapData.loaded
       THEN /\ sim' = [Step(sim, "load") EXCEPT
                         !.mode = mode, !.scenario = CustomScenario(sim.customMapData)]
            /\ ResetTo(sim.customMapData.startPosition)
       ELSE /\ sim' = [Step(sim, "setMode") EXCEPT !.mode = mode]
            /\ UNCHANGED <<carVars, controls, inputState>>
  /\ UNCHANGED <<storage, result, editor>>

\* the confirm button of the load dialog, with the map read from storage
LoadMapConfirm ==
  /\ \E data \in SavedMaps :
       /\ editor' = [loadMapData(editor, data) EXCEPT !.event = "loadMapData"]
       /\ sim' = [Step(sim, "loadMap") EXCEPT
                    !.customMapData = [loaded |-> TRUE, objects |-> data.objects,
                                       startPosition |-> data.startPosition]]
  /\ UNCHANGED <<carVars, controls, inputState, storage, result>>

\* a car button: car.setConfig(CAR_CONFIGS[index]); car.clearTrails()
SelectCar ==
  /\ \E cfg \in ConfigSet :
       /\ config' = cfg
       /\ state' = SetConfigState(state, config, cfg)
  /\ wheelTrails' = EmptyTrails
  /\ last' = NoArgs @@ [op |-> "clearTrails"]
  /\ prev' = Snapshot
  /\ movingTicks' = 0
  /\ sim' = Step(sim, "selectCar")
  /\ UNCHANGED <<ops, controls, inputState, storage, result, editor>>

\* keys and steering buttons
LoopInput ==
  /\ \/ \E k \in LoopKeys : KeyDown(k)
     \/ \E k \in LoopKeys : KeyUp(k)
     \/ \E v \in LoopButtons : SteeringClick(v)
  /\ sim' = Step(sim, "input")
  /\ UNCHANGED <<carVars, storage, result, editor>>

\* gameLoop(timestamp): dt, update(dt), render().  The timestamps of later
\* frames never decrease; the first one is not tied to the time start() read.
GameLoop ==
  /\ sim.frames < MaxFrames
  /\ \E timestamp \in FrameTimes :
       /\ sim.frames > 0 => timestamp >= sim.lastTime
       /\ LET dt == Min(timestamp - sim.lastTime, DtCap)
              input == GetInput(controls)
              after == AppUpdateState(state, config, dt, input, sim.scenario.bounds)
              frame == [sim EXCEPT !.lastTime = timestamp, !.frames = @ + 1,
                                   !.dt = dt, !.frameMode = sim.mode,
                                   !.event = "frame"]
          IN  IF sim.mode = "drive"
              THEN /\ inputState' = input
                   /\ controls' = [AfterGetInput(controls) EXCEPT !.fresh = TRUE]
                   /\ state' = after
                   /\ wheelTrails' = UpdateTrails(wheelTrails, state, config, dt, input)
                   /\ last' = [NoArgs EXCEPT !.dt = dt, !.movement = input.movement,
                                             !.steeringPosition = input.steeringPosition]
                                @@ [op |-> "update"]
                   /\ prev' = Snapshot
                   /\ movingTicks' = TicksAfter(movingTicks, after)
                   /\ sim' = [frame EXCEPT !.updateCalls = 1, !.view = "car",
                                           !.rendered = RenderedCar(state, after)]
              ELSE /\ sim' = [frame EXCEPT !.updateCalls = 0, !.view = "editor"]
                   /\ UNCHANGED <<inputState, controls, state, wheelTrails, last, prev, movingTicks>>
  /\ UNCHANGED <<config, ops, storage, result, editor>>

LoopNext ==
  \/ GameLoop
  \/ /\ sim.steps < MaxSteps
     /\ \/ LoadScenario
        \/ ResetButton
        \/ SetMode
        \/ LoadMapConfirm
        \/ SelectCar
        \/ LoopInput

SpecLoop == LoopInit /\ [][LoopNext]_vars

\* ------------------------------------------------- the game loop of main.ts
\* the application of main.ts after its constructor: no modes, no editor
MainInit ==
  /\ CarIdle
  /\ controls = ControlsNew({})
  /\ inputState = NoInput
  /\ storage = StorageIdle
  /\ result = ResultIdle
  /\ \E now \in StartTimes : sim = SimNew(now)
  /\ editor = EditorIdle

\* loadScenario(name) of main.ts
MainLoadScenario ==
  /\ \E name \in ScenarioNames :
       /\ sim' = [Step(sim, "load") EXCEPT !.currentScenarioName = name,
                                           !.scenario = getScenario(name)]
       /\ ResetTo(getScenario(name).carStart)
  /\ UNCHANGED <<storage, result, editor>>

\* gameLoop(timestamp) of main.ts
MainGameLoop ==
  /\ sim.frames < MaxFrames
  /\ \E timestamp \in FrameTimes :
       /\ sim.frames > 0 => timestamp >= sim.lastTime
       /\ LET dt == Min(timestamp - sim.lastTime, DtCap)
              input == GetInput(controls)
              after == MainUpdateState(state, config, dt, input, sim.scenario.bounds)
          IN  /\ inputState' = input
              /\ controls' = [AfterGetInput(controls) EXCEPT !.fresh = TRUE]
              /\ state' = after
              /\ wheelTrails' = UpdateTrails(wheelTrails, state, config, dt, input)
              /\ last' = [NoArgs EXCEPT !.dt = dt, !.movement = input.movement,
                                        !.steeringPosition = input.steeringPosition]
                           @@ [op |-> "update"]
              /\ prev' = Snapshot
              /\ movingTicks' = TicksAfter(movingTicks, after)
              /\ sim' = [sim EXCEPT !.lastTime = timestamp, !.frames = @ + 1,
                                    !.dt = dt, !.frameMode = "drive",
                                    !.event = "frame", !.updateCalls = 1,
                                    !.view = "car",
                                    !.rendered = RenderedCar(state, after)]
  /\ UNCHANGED <<config, ops, storage, result, editor>>

MainNext ==
  \/ MainGameLoop
  \/ /\ sim.steps < MaxSteps
     /\ \/ MainLoadScenario
        \/ ResetButton
        \/ SelectCar
        \/ LoopInput

SpecMain == MainInit /\ [][MainNext]_vars

\* ----------------------------------------------------------------- claims
TrailNames == {"frontLeft", "frontRight", "rearLeft", "rearRight"}

\* the command of the last update was one that moves the car
MovingCommand == Abs(last.movement * prev.config.speed) > VelocityEps

\* C1: in every reachable state |steeringAngle| <= maxSteeringAngle of the
\* active config.
C1_SteeringWithinLock == Abs(state.steeringAngle) <= config.maxSteeringAngle

\* C2: after an update, moving or not, heading lies in [0, 2 pi).
C2_HeadingNormalized ==
  last.op = "update" => (0 <= state.heading /\ state.heading < TwoPi)

\* C3: an update changes the steering angle by at most 5 * dt; when the target
\* is further away than 5 * dt the change is exactly 5 * dt toward the target,
\* otherwise the new angle is the target.
C3_SteeringRateLimit ==
  last.op = "update" =>
    LET old == prev.state.steeringAngle
        new == state.steeringAngle
        target == TargetSteering(prev.config, last.steeringPosition)
        limit == MaxSteeringChange(last.dt)
    IN  /\ Abs(new - old) <= limit
        /\ (target - old > limit => new - old = limit)
        /\ (old - target > limit => old - new = limit)
        /\ (Abs(target - old) <= limit => new = target)

\* a rate-limited update of a steering angle that was not at rest: the target
\* lies further below the old angle than one step
C3_Witness ==
  /\ last.op = "update"
  /\ prev.state.steeringAngle > 0
  /\ prev.state.steeringAngle - TargetSteering(prev.config, last.steeringPosition)
       > MaxSteeringChange(last.dt)
  /\ state.steeringAngle = prev.state.steeringAngle - MaxSteeringChange(last.dt)

\* C4: an update with movement = 0 leaves rearAxleX, rearAxleY, heading and
\* the four wheel trails unchanged; only steeringAngle and velocity (set to 0)
\* may change.
C4_StoppedFrame ==
  (last.op = "update" /\ last.movement = 0) =>
    /\ state.rearAxleX = prev.state.rearAxleX
    /\ state.rearAxleY = prev.state.rearAxleY
    /\ state.heading = prev.state.heading
    /\ wheelTrails = prev.wheelTrails
    /\ state.velocity = 0
    /\ config = prev.config

\* a car that was moving and steering is stopped while its steering still turns
C4_Witness ==
  /\ last.op = "update" /\ last.movement = 0
  /\ prev.state.velocity # 0
  /\ state.steeringAngle # prev.state.steeringAngle
  /\ Len(wheelTrails.rearLeft) > 0

\* C5: an update with |movement * speed| > 0.1 appends exactly one point to each
\* of the four wheel trails and leaves the earlier points unchanged; an update
\* with movement = 0 appends none.
C5_TrailGrowth ==
  last.op = "update" =>
    /\ MovingCommand =>
         \A w \in TrailNames :
           /\ Len(wheelTrails[w]) = Len(prev.wheelTrails[w]) + 1
           /\ SubSeq(wheelTrails[w], 1, Len(prev.wheelTrails[w])) = prev.wheelTrails[w]
    /\ last.movement = 0 =>
         \A w \in TrailNames : Len(wheelTrails[w]) = Len(prev.wheelTrails[w])

\* a second moving tick: every trail already held a point
C5_Witness ==
  /\ last.op = "update" /\ MovingCommand
  /\ \A w \in TrailNames : Len(prev.wheelTrails[w]) = 1 /\ Len(wheelTrails[w]) = 2
  /\ wheelTrails.frontLeft[1] # wheelTrails.frontLeft[2]

\* C6: reset(x, y, h) sets heading to h, steering angle and velocity to 0,
\* empties the four wheel trails and leaves the config unchanged.
C6_Reset ==
  last.op = "reset" =>
    /\ state.heading = last.heading
    /\ state.steeringAngle = 0
    /\ state.velocity = 0
    /\ \A w \in TrailNames : wheelTrails[w] = <<>>
    /\ config = prev.config

\* reset of a car that was moving, steering and had left a trail
C6_Witness ==
  /\ last.op = "reset"
  /\ prev.state.steeringAngle # 0
  /\ prev.state.velocity # 0
  /\ Len(prev.wheelTrails.frontRight) > 0
  /\ prev.state.heading # last.heading

\* C7: immediately after new Car(x, y, h, config) or reset(x, y, h),
\* getCarCenter returns (x, y).
C7_CenterRoundTrip ==
  last.op \in {"new", "reset"} =>
    getCarCenter(state, config) = [x |-> last.x, y |-> last.y]

\* reset of a moved car, with a profile other than the one it was built with,
\* to a pose whose rear axle lies off the centre in y
C7_Witness ==
  /\ last.op = "reset"
  /\ config # PICANTO_CONFIG
  /\ state.rearAxleY = last.y + CenterOffset(config)
  /\ state.rearAxleX # prev.state.rearAxleX

\* C8: in an update the new steering angle lies between the previous angle and
\* the target, inclusive.
C8_SteeringNoOvershoot ==
  last.op = "update" =>
    LET old == prev.state.steeringAngle
        new == state.steeringAngle
        target == TargetSteering(prev.config, last.steeringPosition)
    IN  Min(old, target) <= new /\ new <= Max(old, target)

\* an update that crossed zero toward a target on the other side and reached it
C8_Witness ==
  /\ last.op = "update"
  /\ prev.state.steeringAngle > 0
  /\ state.steeringAngle < 0
  /\ state.steeringAngle = TargetSteering(prev.config, last.steeringPosition)

\* C9: after an update velocity = movement * speed of the command just given,
\* and |velocity| <= speed of the active config in every reachable state.
C9_CommandedVelocity ==
  /\ last.op = "update" => state.velocity = last.movement * config.speed
  /\ Abs(state.velocity) <= config.speed

\* a car in reverse is stopped on the first tick without movement
C9_Witness ==
  /\ last.op = "update" /\ last.movement = 0
  /\ prev.state.velocity = -prev.config.speed
  /\ state.velocity = 0

\* C10 as stated: setConfig does not move the car, getCarCenter returns the
\* same visual centre before and after the swap.
C10_CenterKept ==
  last.op = "setConfig" =>
    getCarCenter(state, config) = getCarCenter(prev.state, prev.config)

\* C10 amended: setConfig leaves the rear axle and the heading where they were;
\* getCarCenter then returns the rear axle advanced by the new profile's offset,
\* so the visual centre is the same exactly when the two offsets are equal.
C10_RearAxleKept ==
  last.op = "setConfig" =>
    /\ state.rearAxleX = prev.state.rearAxleX
    /\ state.rearAxleY = prev.state.rearAxleY
    /\ state.heading = prev.state.heading
    /\ (getCarCenter(state, config) = getCarCenter(prev.state, prev.config))
         <=> (CenterOffset(config) = CenterOffset(prev.config))

\* a swap to a profile with another offset, on a car that has been driven
C10_Witness ==
  /\ last.op = "setConfig"
  /\ CenterOffset(config) # CenterOffset(prev.config)
  /\ Len(wheelTrails.rearRight) > 0
  /\ getCarCenter(state, config) # getCarCenter(prev.state, prev.config)

\* C11: setConfig replaces only the config: rearAxleX, rearAxleY, heading,
\* steeringAngle, velocity and the four wheel trails are as before the call.
C11_SetConfigFrame ==
  last.op = "setConfig" =>
    /\ \A f \in {"rearAxleX", "rearAxleY", "heading", "steeringAngle", "velocity"} :
         state[f] = prev.state[f]
    /\ \A w \in TrailNames : wheelTrails[w] = prev.wheelTrails[w]

\* a moving car at full lock with a trail is given a profile with a smaller lock
C11_Witness ==
  /\ last.op = "setConfig"
  /\ config.maxSteeringAngle < prev.config.maxSteeringAngle
  /\ Abs(state.steeringAngle) = prev.config.maxSteeringAngle
  /\ state.velocity # 0
  /\ Len(wheelTrails.frontLeft) > 0

\* the last update was a moving tick whose steering angle turns the heading
TurningTick ==
  last.op = "update" /\ MovingCommand /\ Abs(state.steeringAngle) > SteeringEps

\* the signed difference of two headings, in [-pi, pi)
HeadingDiff(a, b) == ((a - b + Pi) % TwoPi) - Pi

\* two units of the angle resolution
HeadingTol == AngleScale \div 5000

\* C14: on a moving tick with |steeringAngle| > 0.001 the heading changes by
\* velocity * tan(steeringAngle) / wheelbase * dt, up to normalisation and the
\* resolution of the arithmetic; the sign follows velocity * steeringAngle.
C14_HeadingRate ==
  TurningTick =>
    LET rate == RDiv(state.velocity * Tan(state.steeringAngle), prev.config.wheelbase)
        expected == RDiv(rate * last.dt, TimeScale)
    IN  Abs(HeadingDiff(state.heading, prev.state.heading + expected)) <= HeadingTol

\* a long reversing tick at a positive steering angle turns the heading backwards
C14_Witness ==
  /\ TurningTick
  /\ last.movement = -1
  /\ state.steeringAngle > 0
  /\ last.dt = 200
  /\ HeadingDiff(state.heading, prev.state.heading) < -(10 * HeadingTol)

\* C17: on a moving tick the point appended to each wheel's trail is that
\* wheel's position at the rear-axle position and heading held before the tick.
C17_TrailBeforeMove ==
  (last.op = "update" /\ MovingCommand) =>
    LET wheels == getWheels(prev.state, prev.config)
    IN  /\ wheelTrails.frontLeft[Len(wheelTrails.frontLeft)] = wheels[1]
        /\ wheelTrails.frontRight[Len(wheelTrails.frontRight)] = wheels[2]
        /\ wheelTrails.rearLeft[Len(wheelTrails.rearLeft)] = wheels[3]
        /\ wheelTrails.rearRight[Len(wheelTrails.rearRight)] = wheels[4]

\* a turning tick: every wheel has left the point just recorded for it
C17_Witness ==
  /\ TurningTick
  /\ LET wheels == getWheels(state, config)
     IN  /\ wheelTrails.frontLeft[Len(wheelTrails.frontLeft)] # wheels[1]
         /\ wheelTrails.rearRight[Len(wheelTrails.rearRight)] # wheels[4]

\* the displacement of the rear axle over one tick along heading h
Displacement(h, velocity, dt) ==
  [x |-> RDiv(FMul(Cos(h), velocity) * dt, TimeScale),
   y |-> RDiv(FMul(Sin(h), velocity) * dt, TimeScale)]

\* C18: on a moving tick with |steeringAngle| > 0.001 the rear axle is displaced
\* by velocity * dt along the heading as updated in this tick.
C18_TranslateAlongNewHeading ==
  TurningTick =>
    LET d == Displacement(state.heading, state.velocity, last.dt)
    IN  /\ state.rearAxleX = prev.state.rearAxleX + d.x
        /\ state.rearAxleY = prev.state.rearAxleY + d.y

\* a turning tick on which the old heading would have led somewhere else
C18_Witness ==
  /\ TurningTick
  /\ state.heading # prev.state.heading
  /\ Displacement(state.heading, state.velocity, last.dt)
       # Displacement(prev.state.heading, state.velocity, last.dt)

\* C19: on a moving tick whose rate-limited steering angle is at most 0.001 the
\* heading is left unchanged and the rear axle is displaced by velocity * dt
\* along that heading.
C19_StraightTick ==
  (last.op = "update" /\ MovingCommand /\ Abs(state.steeringAngle) <= SteeringEps) =>
    LET d == Displacement(prev.state.heading, state.velocity, last.dt)
    IN  /\ state.heading = prev.state.heading
        /\ state.rearAxleX = prev.state.rearAxleX + d.x
        /\ state.rearAxleY = prev.state.rearAxleY + d.y

\* the number of ticks of at least MinDt that cover the way from the angle the
\* hold began at to the target: ceil(|target - initial| / (5 * MinDt))
TicksToTarget ==
  LET way == Abs(TargetSteering(config, last.steeringPosition) - prev.state.steeringAngle)
      step == (steeringSpeed * MinDt * AngleScale) \div TimeScale
  IN  (way + step - 1) \div step

\* C20: while one steeringPosition is commanded on every tick with dt >= d > 0,
\* the steering angle equals the target after at most
\* ceil(|target - initial| / (5 * d)) ticks and stays equal from then on.
C20_ReachesTarget ==
  ops >= TicksToTarget =>
    state.steeringAngle = TargetSteering(config, last.steeringPosition)

\* a hold that needed the full count of short ticks and has gone on past it
C20_Witness ==
  /\ TicksToTarget > 2
  /\ ops > TicksToTarget
  /\ last.dt = MinDt
  /\ prev.state.steeringAngle # TargetSteering(config, last.steeringPosition)
  /\ state.steeringAngle = TargetSteering(config, last.steeringPosition)

\* C15: after any sequence of keyboard, touch/mouse button and blur events
\* getInput returns movement in {-1, 0, 1} and steeringPosition in
\* {-1, -0.5, 0, 0.5, 1}.
C15_InputQuantized ==
  /\ inputState.movement \in Movement
  /\ inputState.steeringPosition \in SteeringPosition

\* getInput with the reverse key and the hard-right key held against a pressed
\* forward button and a touch-selected hard left
C15_Witness ==
  /\ {"arrowdown", "g"} \subseteq controls.keys
  /\ controls.touchMovement = 1
  /\ controls.touchSteering = -2
  /\ inputState = [movement |-> -1, steeringPosition |-> 2]

\* C16: when localStorage access throws or the stored text is not a JSON
\* object of maps, getSavedMaps, getMapNames, loadMap, saveMap and deleteMap
\* complete without throwing, and the reads yield an empty result.
C16_StorageNeverThrows ==
  result.bad =>
    /\ ~result.threw
    /\ result.op \in {"getSavedMaps", "getMapNames"} => result.names = {}
    /\ result.op = "loadMap" => result.value = Absent

\* C12: every dt the game loop passes to Car.update lies in [0, 0.1 s].
C12_DtWithinCap ==
  (sim.updateCalls = 1 /\ last.op = "update") =>
    (0 <= last.dt /\ last.dt <= DtCap)

\* C13 as stated: every iteration of the game loop calls Car.update exactly
\* once and render reads the car that call left, in every app mode.
C13_UpdateEveryFrame ==
  sim.event = "frame" =>
    /\ sim.updateCalls = 1
    /\ sim.view = "car"
    /\ sim.rendered = state

\* C13 amended: an iteration in drive mode calls Car.update exactly once and
\* render reads the car that call (and the bounds clamp) left; an iteration in
\* edit mode does not call Car.update, leaves the car alone and draws the
\* editor.
C13_UpdateBeforeRender ==
  sim.event = "frame" =>
    /\ sim.frameMode = "drive" =>
         (sim.updateCalls = 1 /\ sim.view = "car" /\ sim.rendered = state)
    /\ sim.frameMode = "edit" =>
         (sim.updateCalls = 0 /\ sim.view = "editor")

\* a drive-mode iteration whose update changed the car
C13_Witness ==
  /\ sim.event = "frame"
  /\ sim.frameMode = "drive"
  /\ sim.updateCalls = 1
  /\ state # prev.state
  /\ sim.rendered = state

\* C23: the four wheel trails have the same length, the number of moving
\* ticks since construction or the last clearTrails / reset.
C23_TrailLengths ==
  \A w \in TrailNames : Len(wheelTrails[w]) = movingTicks

\* two moving ticks in a row have been recorded
C23_Witness ==
  /\ movingTicks = 2
  /\ last.op = "update"
  /\ \A w \in TrailNames : Len(wheelTrails[w]) = 2

\* C24: with working storage, saveMap(n, d) makes loadMap(n) return d and
\* getMapNames include n, deleteMap(n) makes loadMap(n) return null and removes
\* n from getMapNames, and both leave the entry of every other name unchanged.
C24_SaveLoadDelete ==
  LET n == result.name
  IN  /\ (result.op = "saveMap" /\ ~result.bad) =>
            /\ loadMap(storage, n) = result.value
            /\ n \in getMapNames(storage)
            /\ \A o \in MapNames \ {n} : storage.text.maps[o] = result.before.maps[o]
      /\ (result.op = "deleteMap" /\ ~result.bad) =>
            /\ loadMap(storage, n) = Absent
            /\ n \notin getMapNames(storage)
            /\ \A o \in MapNames \ {n} : storage.text.maps[o] = result.before.maps[o]

\* C25: the touch movement is nonzero only while a movement button of that
\* value is held; with every movement button released it is 0.
C25_TouchMovementHeld ==
  /\ controls.touchMovement # 0 => controls.touchMovement \in controls.held
  /\ controls.held = {} => controls.touchMovement = 0

\* both buttons were pressed, reverse last, and forward was then released:
\* reverse is the one still held and still commanded
C25_Witness ==
  /\ controls.held = {-1}
  /\ controls.touchMovement = -1

\* C26: once a steering input or resetSteering has occurred, after every
\* getInput call exactly the button of the returned steeringPosition carries
\* the 'active' mark.
C26_ActiveMatchesInput ==
  (controls.fresh /\ controls.steered) =>
    controls.active = {inputState.steeringPosition}

\* what getInput has to return for the keys and touch values of c
ExpectedInput(c) ==
  [movement |-> CASE "arrowup" \in c.keys -> 1
                  [] "arrowdown" \in c.keys -> -1
                  [] OTHER -> c.touchMovement,
   steeringPosition |-> CASE "a" \in c.keys -> -2
                          [] "s" \in c.keys -> -1
                          [] "d" \in c.keys -> 0
                          [] "f" \in c.keys -> 1
                          [] "g" \in c.keys -> 2
                          [] OTHER -> c.touchSteering]

\* C30: getInput returns the movement of ArrowUp, else ArrowDown, else the
\* touch movement, and the steering of the first held key of a, s, d, f, g,
\* else the touch steering; no change of the held keys and no getInput call
\* modifies the stored touch values, so with no key held the result is the
\* touch state.
C30_KeyboardOverTouch ==
  [][ /\ controls'.fresh =>
           /\ inputState' = ExpectedInput(controls')
           /\ controls'.keys = {} =>
                inputState' = [movement |-> controls'.touchMovement,
                               steeringPosition |-> controls'.touchSteering]
      /\ (controls'.keys # controls.keys \/ controls'.fresh) =>
           /\ controls'.touchMovement = controls.touchMovement
           /\ controls'.touchSteering = controls.touchSteering ]_vars

\* getInput read both arrows and two steering keys held over touch values
C30_Witness ==
  /\ controls.fresh
  /\ {"arrowup", "arrowdown", "s", "f"} \subseteq controls.keys
  /\ "a" \notin controls.keys
  /\ controls.touchMovement = -1
  /\ controls.touchSteering = 2
  /\ inputState = [movement |-> 1, steeringPosition |-> -1]

\* C27: selectedId is null, 'start' or the id of an object in the objects list.
C27_SelectionExists ==
  editor.selectedId \in
    {NullId, StartId} \cup {editor.objects[i].id : i \in 1..Len(editor.objects)}

\* the selected one of two placed objects was deleted, the other one stays
C27_Witness ==
  /\ editor.event = "delete"
  /\ editor.nextId = 3
  /\ Len(editor.objects) = 1
  /\ editor.selectedId = NullId

\* C28: a pointer-move changes the position of an object or of the start
\* marker only between a select-tool pointer-down that hit that item and the
\* next release of the pointer, wherever the release happens.
C28_MoveOnlyWhileDragging ==
  [][ (editor'.event = "move" /\ editor'.calls # editor.calls) =>
        /\ editor'.startPosition # editor.startPosition => editor.grabbed = StartId
        /\ \A i \in 1..Len(editor.objects) :
             editor'.objects[i] # editor.objects[i] =>
               editor.grabbed = editor.objects[i].id ]_vars

\* the rotation of the selected item: the marker's heading or the car's rotation
RotValue ==
  IF editor.selectedId = StartId THEN editor.startPosition.heading
  ELSE editor.objects[1].rotation

\* the item that is not selected is as it was placed
OtherItemKept ==
  /\ editor.objects[1].x = CarPlaced.objects[1].x
  /\ editor.objects[1].y = CarPlaced.objects[1].y
  /\ editor.startPosition.x = CarPlaced.startPosition.x
  /\ editor.startPosition.y = CarPlaced.startPosition.y
  /\ IF editor.selectedId = StartId THEN editor.objects[1].rotation = 0
     ELSE editor.startPosition.heading = 0

\* the distance of two angles on the circle
CircDist(a, b) == Min((a - b) % TwoPi, (b - a) % TwoPi)

\* C29 as stated: 24 successive calls of rotateSelected return the rotation,
\* started at 0, to its initial value.
C29_ExactTurn ==
  editor.calls = FullTurn => RotValue = 0

\* C29 amended: each call adds pi/12 up to the rounding of the sum, to the
\* selected item only; started at 0 the value stays in [0, 2 pi); after n calls
\* it is n * pi/12 modulo 2 pi up to n roundings, so 24 calls return it to its
\* initial value modulo 2 pi and up to rounding, not to the same number.
C29_RotateSelected ==
  /\ 0 <= RotValue /\ RotValue < TwoPi
  /\ OtherItemKept
  /\ CircDist(RotValue, editor.calls * RotationStep) <= editor.calls

\* a full turn whose last sum fell short of 2 pi and was not wrapped
C29_Witness ==
  /\ editor.calls = FullTurn
  /\ editor.selectedId = StartId
  /\ RotValue = TwoPi - 1
  /\ OtherItemKept

\* C21: after the app loads a scenario or handles the reset button, the car's
\* visual centre and heading are the scenario's carStart, steering angle and
\* velocity are 0, the four wheel trails are empty and the controls' selected
\* steering position is 0.
C21_LoadResets ==
  sim.event \in {"load", "reset"} =>
    /\ getCarCenter(state, config) = [x |-> sim.scenario.carStart.x,
                                      y |-> sim.scenario.carStart.y]
    /\ state.heading = sim.scenario.carStart.heading
    /\ state.steeringAngle = 0
    /\ state.velocity = 0
    /\ \A w \in TrailNames : wheelTrails[w] = <<>>
    /\ controls.touchSteering = 0

\* a load or reset of a car that was driving with a steering button selected
C21_Witness ==
  /\ sim.event \in {"load", "reset"}
  /\ prev.state.velocity # 0
  /\ Len(prev.wheelTrails.rearLeft) > 0
  /\ controls.steered
  /\ controls.touchSteering = 0
  /\ controls.active = {0}
  /\ inputState.steeringPosition = 1

\* C22: after a drive-mode frame update the rear axle lies within the
\* scenario's bounds shrunk by 50 px.
C22_RearAxleInBounds ==
  LET b == sim.scenario.bounds
  IN  (sim.event = "frame" /\ sim.frameMode = "drive") =>
        /\ b.minX + margin <= state.rearAxleX
        /\ state.rearAxleX <= b.maxX - margin
        /\ b.minY + margin <= state.rearAxleY
        /\ state.rearAxleY <= b.maxY - margin

====
